---- MODULE Spec2Model ----
(***************************************************************************)
(* Model of the SentimentAnalyzer component                                *)
(* (src/src/components/sentiment-analyzer.tsx): its six React state slots, *)
(* the two async handlers fetchHistory and handleAnalyze, and the remote   *)
(* service as a black box that answers each request with any outcome.      *)
(*                                                                         *)
(* Granularity.  An async function runs without interruption up to its     *)
(* next await on network I/O (fetch, response.json()); what follows the    *)
(* resolution of that await, including catch, finally and the continuation *)
(* of an awaiting caller, runs in the same microtask checkpoint.  Each     *)
(* action below is one such uninterrupted run.                             *)
(*                                                                         *)
(* The handlers are modelled as operations that may be invoked in any      *)
(* state: handleAnalyze carries its own guard (line 78); the Button's      *)
(* disabled prop (line 194) belongs to the presentation layer.             *)
(***************************************************************************)
EXTENDS Integers, Sequences, FiniteSets, Bags, TLC

(***************************************************************************)
(* Bounds of the model                                                     *)
(***************************************************************************)
\* number of async invocations that may be suspended at the same time
MaxInFlight == 2
\* last value of the client clock
MaxClock == 1
\* largest score shown, in hundredths: scores range over -MaxScore..MaxScore
MaxScore == 100
\* longest text shown in the history list
MaxTextLen == 62

(***************************************************************************)
(* Values                                                                  *)
(***************************************************************************)
\* a string is a sequence of characters

\* what the user may type: nothing, whitespace only, a padded word, a word
DraftTexts ==
  { <<>>, <<" ", "\t">>, <<" ", "a", "\n">>, <<"a", "a">> }

IsWhiteSpace(c) == c \in {" ", "\t", "\n", "\r"}

RECURSIVE trimStart(_)
trimStart(s) ==
  IF s # <<>> /\ IsWhiteSpace(Head(s)) THEN trimStart(Tail(s)) ELSE s

RECURSIVE trimEnd(_)
trimEnd(s) ==
  IF s # <<>> /\ IsWhiteSpace(s[Len(s)])
  THEN trimEnd(SubSeq(s, 1, Len(s) - 1))
  ELSE s

\* a trim of the leading whitespace only
trimLeadingOnly(s) == trimStart(s)

\* String.prototype.trim
trim(s) == trimEnd(trimStart(s))

\* JavaScript null in the string-typed slot errorMessage
null == "null"

\* JavaScript null in the record-typed slot result
nullResult == [null |-> TRUE]

\* the time value of an Invalid Date (NaN); valid time values are >= 0
NaN == -1

\* the limit the client puts in the history request
HistoryLimit == 10

\* new Date(string): the time value of the instant the string denotes, or
\* an Invalid Date when the string is not a date; it never throws
DateParse(s) ==
  CASE s = "2024-01-01T00:00:00Z"     -> [time |-> 1]
    [] s = "2024-01-01T00:00:00.000Z" -> [time |-> 1]
    [] s = "2024-01-02T00:00:00Z"     -> [time |-> 2]
    [] OTHER                          -> [time |-> NaN]

\* new Date(): the client clock at the time of the call
DateNow(clock) == [time |-> clock]

(***************************************************************************)
(* The remote service: the bodies it may send.  Scores are scaled by 100.  *)
(***************************************************************************)
\* bodies of a 2xx POST /analyze response; input_text need not echo the request
AnalyzeBodies ==
  { [input_text |-> <<"a">>, sentiment |-> "Positive", compound_score |-> 80],
    [input_text |-> <<"a", "a">>, sentiment |-> "Negative", compound_score |-> -50] }

WireItem(id, txt, sent, sc, created) ==
  [id |-> id, input_text |-> txt, sentiment |-> sent, compound_score |-> sc,
   created_at |-> created]

ItemNew == WireItem("id2", <<"a", "a">>, "Negative", -50, "2024-01-02T00:00:00Z")
ItemOld == WireItem("id1", <<"a">>, "Positive", 80, "2024-01-01T00:00:00Z")
ItemOldMs == WireItem("id1", <<"a">>, "Positive", 80, "2024-01-01T00:00:00.000Z")
ItemBadDate == WireItem("id3", <<"a">>, "Neutral", 10, "yesterday")

\* a JSON value that is an array of wire items, or one that is not an array
JsonArray(items) == [isArray |-> TRUE, items |-> items]
JsonObject == [isArray |-> FALSE, items |-> <<>>]

\* bodies of a 2xx GET /history response: empty, most-recent-first, oldest
\* first, an unparseable date, more items than the limit
\* asked for, and a body that is not an array
HistoryBodies ==
  { JsonArray(<<>>),
    JsonArray(<<ItemNew, ItemOld>>),
    JsonArray(<<ItemOldMs, ItemNew>>),
    JsonArray(<<ItemNew, ItemBadDate>>),
    JsonArray([i \in 1..(HistoryLimit + 1) |-> IF i % 2 = 1 THEN ItemNew ELSE ItemOld]),
    JsonObject }

\* a thrown JavaScript value: an Error object with its message
Error(msg) == [isError |-> TRUE, message |-> msg]

\* what fetch() rejects with on a network failure
NetworkError == Error("Failed to fetch")

\* what response.json() rejects with on a malformed body
SyntaxError == Error("Unexpected token < in JSON")

\* what data.map(...) throws when data is not an array
NotAFunction == Error("data.map is not a function")

\* outcomes of awaiting fetch(): rejected, resolved with a non-2xx status,
\* resolved with a 2xx status
FetchOutcomes == {"reject", "notOk", "ok"}

(***************************************************************************)
(* State                                                                   *)
(***************************************************************************)
VARIABLES
  text,              \* useState(""): the draft text
  result,            \* useState(null): the current result
  history,           \* useState([]): the history list
  isAnalyzing,       \* useState(false)
  isLoadingHistory,  \* useState(false)
  errorMessage,      \* useState(null)
  mounted,           \* whether the mount effect has run
  calls,             \* the suspended async invocations, a bag
  now,               \* the client clock
  lastEvent          \* observation: the step taken last

state == <<text, result, history, isAnalyzing, isLoadingHistory, errorMessage>>

vars == <<text, result, history, isAnalyzing, isLoadingHistory, errorMessage,
          mounted, calls, now, lastEvent>>

\* an invocation of fn suspended at an await; body is the text of the POST
\* that is in flight, if one is
Call(fn, awaiting, body) == [fn |-> fn, awaiting |-> awaiting, body |-> body]

Suspended == BagToSet(calls)

\* an invocation suspends, resumes at another await, returns
Suspend(call) == calls (+) SetToBag({call})
Return(call) == calls (-) SetToBag({call})
Resume(call, awaiting) ==
  Return(call) (+) SetToBag({Call(call.fn, awaiting, <<>>)})

Event(op, call, outcome, data) ==
  [op |-> op, call |-> call, outcome |-> outcome, data |-> data]

NoCall == Call("none", "none", <<>>)

(***************************************************************************)
(* RecordNormalizer                                                        *)
(***************************************************************************)
\* lines 55-61: one history item to an AnalysisResult
mapItem(item) ==
  [id |-> item.id,
   text |-> item.input_text,
   sentiment |-> item.sentiment,
   score |-> item.compound_score,
   timestamp |-> DateParse(item.created_at)]

\* the list with its order reversed
mappedReversed(items) ==
  [i \in 1..Len(items) |-> mapItem(items[Len(items) + 1 - i])]

\* data.map(...): same length, same order
mapped(items) == [i \in 1..Len(items) |-> mapItem(items[i])]

\* the result built from the draft and the clock's first value
newResultFromDraft(data, clock) ==
  [text |-> trim(text),
   sentiment |-> data.sentiment,
   score |-> data.compound_score,
   timestamp |-> DateNow(0)]

\* lines 102-107: the analyze response to an AnalysisResult without id
newResult(data, clock) ==
  [text |-> data.input_text,
   sentiment |-> data.sentiment,
   score |-> data.compound_score,
   timestamp |-> DateNow(clock)]

\* error instanceof Error ? error.message : fallback
catchMessage(error, fallback) ==
  IF error.isError THEN error.message ELSE fallback

\* the guard without the trim: only the empty string is rejected
isBlankNoTrim(s) == s = <<>>

\* handleAnalyze's guard, !text.trim()
isBlank(s) == trim(s) = <<>>

(***************************************************************************)
(* fetchHistory                                                            *)
(***************************************************************************)
\* fetchHistory without its setErrorMessage(null)
fetchHistoryBeginKeepsError ==
  /\ isLoadingHistory' = TRUE
  /\ errorMessage' = errorMessage

\* lines 38-42: set the busy flag, clear the error, send GET /history
fetchHistoryBegin ==
  /\ isLoadingHistory' = TRUE
  /\ errorMessage' = null

\* fetchHistory's finally without the caller's finally
fetchHistoryEndKeepsAnalyzing(call) ==
  /\ isLoadingHistory' = FALSE
  /\ isAnalyzing' = isAnalyzing
  /\ calls' = Return(call)

\* lines 68-70, and the caller's continuation: fetchHistory never rejects,
\* so an awaiting handleAnalyze goes on to its finally (line 116)
fetchHistoryEnd(call) ==
  /\ isLoadingHistory' = FALSE
  /\ isAnalyzing' = IF call.fn = "handleAnalyze" THEN FALSE ELSE isAnalyzing
  /\ calls' = Return(call)

\* a catch that also empties the list
fetchHistoryCatchClearsHistory(call, error) ==
  /\ errorMessage' = catchMessage(error, "Failed to load history")
  /\ history' = <<>>
  /\ fetchHistoryEnd(call)

\* lines 64-67
fetchHistoryCatch(call, error) ==
  /\ errorMessage' = catchMessage(error, "Failed to load history")
  /\ UNCHANGED history
  /\ fetchHistoryEnd(call)

\* lines 73-75: the mount effect calls fetchHistory once, before any event
\* handler can run
Mount ==
  /\ ~mounted
  /\ mounted' = TRUE
  /\ fetchHistoryBegin
  /\ calls' = Suspend(Call("fetchHistory", "history.fetch", <<>>))
  /\ lastEvent' = Event("mount", NoCall, "issued", <<>>)
  /\ UNCHANGED <<text, result, history, isAnalyzing, now>>

\* lines 42-45: the await of fetch() in fetchHistory resolves
HistoryFetchResolve(call, outcome) ==
  /\ call \in Suspended
  /\ call.awaiting = "history.fetch"
  /\ lastEvent' = Event("history.fetch", call, outcome, <<>>)
  /\ CASE outcome = "reject" -> fetchHistoryCatch(call, NetworkError)
       [] outcome = "notOk" ->
            fetchHistoryCatch(call, Error("Failed to load history"))
       [] outcome = "ok" ->
            /\ calls' = Resume(call, "history.json")
            /\ UNCHANGED <<history, isAnalyzing, isLoadingHistory, errorMessage>>
  /\ UNCHANGED <<text, result, mounted, now>>

\* lines 47-53: the await of response.json() in fetchHistory rejects
HistoryJsonReject(call) ==
  /\ call \in Suspended
  /\ call.awaiting = "history.json"
  /\ lastEvent' = Event("history.json", call, "syntaxError", <<>>)
  /\ fetchHistoryCatch(call, SyntaxError)
  /\ UNCHANGED <<text, result, mounted, now>>

\* an empty array taken for a failure
HistoryJsonResolveEmptyFails(call, data) ==
  /\ call \in Suspended
  /\ call.awaiting = "history.json"
  /\ lastEvent' = Event("history.json", call, "data", data)
  /\ IF data.isArray /\ data.items # <<>>
     THEN /\ history' = mapped(data.items)
          /\ UNCHANGED errorMessage
          /\ fetchHistoryEnd(call)
     ELSE fetchHistoryCatch(call, Error("Failed to load history"))
  /\ UNCHANGED <<text, result, mounted, now>>

\* the response added to the list instead of replacing it
HistoryJsonResolveAppends(call, data) ==
  /\ call \in Suspended
  /\ call.awaiting = "history.json"
  /\ lastEvent' = Event("history.json", call, "data", data)
  /\ IF data.isArray
     THEN /\ history' = history \o mapped(data.items)
          /\ UNCHANGED errorMessage
          /\ fetchHistoryEnd(call)
     ELSE fetchHistoryCatch(call, NotAFunction)
  /\ UNCHANGED <<text, result, mounted, now>>

\* the response of the mount's load dropped once an analysis has been made
HistoryJsonResolveDropsStale(call, data) ==
  /\ call \in Suspended
  /\ call.awaiting = "history.json"
  /\ lastEvent' = Event("history.json", call, "data", data)
  /\ IF data.isArray
     THEN /\ history' = IF call.fn = "fetchHistory" /\ result # nullResult
                        THEN history
                        ELSE mapped(data.items)
          /\ UNCHANGED errorMessage
          /\ fetchHistoryEnd(call)
     ELSE fetchHistoryCatch(call, NotAFunction)
  /\ UNCHANGED <<text, result, mounted, now>>

\* lines 47-63: the await of response.json() in fetchHistory resolves
HistoryJsonResolve(call, data) ==
  /\ call \in Suspended
  /\ call.awaiting = "history.json"
  /\ lastEvent' = Event("history.json", call, "data", data)
  /\ IF data.isArray
     THEN /\ history' = mapped(data.items)
          /\ UNCHANGED errorMessage
          /\ fetchHistoryEnd(call)
     ELSE fetchHistoryCatch(call, NotAFunction)
  /\ UNCHANGED <<text, result, mounted, now>>

(***************************************************************************)
(* handleAnalyze                                                           *)
(***************************************************************************)
\* a catch that sends the request again
handleAnalyzeCatchRetries(call, error) ==
  /\ errorMessage' = catchMessage(error, "Analysis failed.")
  /\ isAnalyzing' = TRUE
  /\ calls' = Return(call) (+) SetToBag({Call(call.fn, "analyze.fetch", call.body)})
  /\ UNCHANGED <<result, history, isLoadingHistory>>

\* a catch with no finally after it: the busy flag stays set
handleAnalyzeCatchKeepsAnalyzing(call, error) ==
  /\ errorMessage' = catchMessage(error, "Analysis failed.")
  /\ isAnalyzing' = isAnalyzing
  /\ calls' = Return(call)
  /\ UNCHANGED <<result, history, isLoadingHistory>>

\* a catch that also drops the result shown
handleAnalyzeCatchDropsResult(call, error) ==
  /\ errorMessage' = catchMessage(error, "Analysis failed.")
  /\ isAnalyzing' = FALSE
  /\ calls' = Return(call)
  /\ result' = nullResult
  /\ UNCHANGED <<history, isLoadingHistory>>

\* lines 111-117
handleAnalyzeCatch(call, error) ==
  /\ errorMessage' = catchMessage(error, "Analysis failed.")
  /\ isAnalyzing' = FALSE
  /\ calls' = Return(call)
  /\ UNCHANGED <<result, history, isLoadingHistory>>

\* lines 77-90: the guard, then set the busy flag, clear the error and send
\* POST /analyze with the trimmed text
HandleAnalyze ==
  /\ mounted
  /\ IF isBlank(text)
     THEN /\ lastEvent' = Event("handleAnalyze", NoCall, "return", <<>>)
          /\ UNCHANGED <<isAnalyzing, errorMessage, calls>>
     ELSE /\ BagCardinality(calls) < MaxInFlight
          /\ isAnalyzing' = TRUE
          /\ errorMessage' = null
          /\ calls' = Suspend(Call("handleAnalyze", "analyze.fetch", trim(text)))
          /\ lastEvent' = Event("handleAnalyze", NoCall, "issued", <<>>)
  /\ UNCHANGED <<text, result, history, isLoadingHistory, mounted, now>>

\* fetchHistory called as soon as the status is known, before the body is read
AnalyzeFetchResolveEarlyRefresh(call, outcome) ==
  /\ call \in Suspended
  /\ call.awaiting = "analyze.fetch"
  /\ lastEvent' = Event("analyze.fetch", call, outcome, <<>>)
  /\ CASE outcome = "reject" -> handleAnalyzeCatch(call, NetworkError)
       [] outcome = "notOk" ->
            handleAnalyzeCatch(call, Error("Analysis failed. Please try again."))
       [] outcome = "ok" ->
            /\ fetchHistoryBegin
            /\ calls' = Resume(call, "history.fetch")
            /\ UNCHANGED <<result, history, isAnalyzing>>
  /\ UNCHANGED <<text, mounted, now>>

\* lines 84-94: the await of fetch() in handleAnalyze resolves
AnalyzeFetchResolve(call, outcome) ==
  /\ call \in Suspended
  /\ call.awaiting = "analyze.fetch"
  /\ lastEvent' = Event("analyze.fetch", call, outcome, <<>>)
  /\ CASE outcome = "reject" -> handleAnalyzeCatch(call, NetworkError)
       [] outcome = "notOk" ->
            handleAnalyzeCatch(call, Error("Analysis failed. Please try again."))
       [] outcome = "ok" ->
            /\ calls' = Resume(call, "analyze.json")
            /\ UNCHANGED <<result, history, isAnalyzing, isLoadingHistory,
                           errorMessage>>
  /\ UNCHANGED <<text, mounted, now>>

\* lines 96-100: the await of response.json() in handleAnalyze rejects
AnalyzeJsonReject(call) ==
  /\ call \in Suspended
  /\ call.awaiting = "analyze.json"
  /\ lastEvent' = Event("analyze.json", call, "syntaxError", <<>>)
  /\ handleAnalyzeCatch(call, SyntaxError)
  /\ UNCHANGED <<text, mounted, now>>

\* lines 96-110: the await of response.json() in handleAnalyze resolves; the
\* result is set and fetchHistory is called, which runs up to its fetch
AnalyzeJsonResolve(call, data) ==
  /\ call \in Suspended
  /\ call.awaiting = "analyze.json"
  /\ lastEvent' = Event("analyze.json", call, "data", data)
  /\ result' = newResult(data, now)
  /\ fetchHistoryBegin
  /\ calls' = Resume(call, "history.fetch")
  /\ UNCHANGED <<text, history, isAnalyzing, mounted, now>>

(***************************************************************************)
(* The user and the clock                                                  *)
(***************************************************************************)
\* line 182: onChange={(e) => setText(e.target.value)}
SetText(s) ==
  /\ mounted
  /\ text' = s
  /\ lastEvent' = Event("setText", NoCall, "set", <<>>)
  /\ UNCHANGED <<result, history, isAnalyzing, isLoadingHistory, errorMessage,
                 mounted, calls, now>>

\* time passes on the client
Tick ==
  /\ now < MaxClock
  /\ now' = now + 1
  /\ lastEvent' = Event("tick", NoCall, "tick", <<>>)
  /\ UNCHANGED <<text, result, history, isAnalyzing, isLoadingHistory,
                 errorMessage, mounted, calls>>

(***************************************************************************)
(* Helpers of the view                                                     *)
(***************************************************************************)
\* 0.1, in hundredths
ScoreThreshold == 10

\* a threshold that is part of the positive and negative ranges
getScoreColorInclusive(score) ==
  IF score >= ScoreThreshold THEN "text-positive"
  ELSE IF score <= -ScoreThreshold THEN "text-negative"
  ELSE "text-neutral"

\* lines 142-146
getScoreColor(score) ==
  IF score > ScoreThreshold THEN "text-positive"
  ELSE IF score < -ScoreThreshold THEN "text-negative"
  ELSE "text-neutral"

\* lines 267-272: the background of the score bar
scoreBarBackground(score) ==
  IF score > ScoreThreshold THEN "var(--positive)"
  ELSE IF score < -ScoreThreshold THEN "var(--negative)"
  ELSE "var(--neutral)"

\* the default of truncateText's maxLength
DefaultMaxLength == 60

\* the marker "..."
Ellipsis == <<".", ".", ".">>

\* a text of exactly maxLength characters cut as well
truncateTextStrict(t, maxLength) ==
  IF Len(t) < maxLength THEN t ELSE SubSeq(t, 1, maxLength) \o Ellipsis

\* lines 152-155
truncateText(t, maxLength) ==
  IF Len(t) <= maxLength THEN t ELSE SubSeq(t, 1, maxLength) \o Ellipsis

\* lines 247, 267-272, 322, 331: what the JSX computes from result and history
View ==
  [scoreColor |-> IF result = nullResult THEN "none" ELSE getScoreColor(result.score),
   barBackground |-> IF result = nullResult THEN "none"
                     ELSE scoreBarBackground(result.score),
   snippets |-> [i \in 1..Len(history) |->
                   truncateText(history[i].text, DefaultMaxLength)],
   itemColors |-> [i \in 1..Len(history) |-> getScoreColor(history[i].score)]]

\* lines 157-356: the component renders
Render ==
  /\ lastEvent' = Event("render", NoCall, "rendered", View)
  /\ UNCHANGED <<text, result, history, isAnalyzing, isLoadingHistory,
                 errorMessage, mounted, calls, now>>

(***************************************************************************)
(* Specification                                                           *)
(***************************************************************************)
Calls ==
  {Call("fetchHistory", a, <<>>) : a \in {"history.fetch", "history.json"}}
    \cup {Call("handleAnalyze", a, <<>>) :
            a \in {"analyze.json", "history.fetch", "history.json"}}
    \cup {Call("handleAnalyze", "analyze.fetch", trim(s)) : s \in DraftTexts}

\* lines 27-32: the initial values of the state slots, before the effect
Init ==
  /\ text = <<>>
  /\ result = nullResult
  /\ history = <<>>
  /\ isAnalyzing = FALSE
  /\ isLoadingHistory = FALSE
  /\ errorMessage = null
  /\ mounted = FALSE
  /\ calls = EmptyBag
  /\ now = 0
  /\ lastEvent = Event("init", NoCall, "init", <<>>)

Next ==
  \/ Mount
  \/ HandleAnalyze
  \/ \E s \in DraftTexts : SetText(s)
  \/ \E c \in Calls, o \in FetchOutcomes : HistoryFetchResolve(c, o)
  \/ \E c \in Calls : HistoryJsonReject(c)
  \/ \E c \in Calls, d \in HistoryBodies : HistoryJsonResolve(c, d)
  \/ \E c \in Calls, o \in FetchOutcomes : AnalyzeFetchResolve(c, o)
  \/ \E c \in Calls : AnalyzeJsonReject(c)
  \/ \E c \in Calls, d \in AnalyzeBodies : AnalyzeJsonResolve(c, d)
  \/ Tick

Spec == Init /\ [][Next]_vars

\* The component once an error is showing: the state after the mount effect,
\* a draft typed, handleAnalyze called and its POST answered with a non-2xx
\* status, the history load of the mount still in flight.
InitAfterError ==
  /\ text = <<"a", "a">>
  /\ result = nullResult
  /\ history = <<>>
  /\ isAnalyzing = FALSE
  /\ isLoadingHistory = TRUE
  /\ errorMessage = "Analysis failed. Please try again."
  /\ mounted = TRUE
  /\ calls = SetToBag({Call("fetchHistory", "history.fetch", <<>>)})
  /\ now = 0
  /\ lastEvent = Event("analyze.fetch",
                       Call("handleAnalyze", "analyze.fetch", <<"a", "a">>),
                       "notOk", <<>>)

\* the steps of the mounted component
NextMounted ==
  \/ HandleAnalyze
  \/ \E s \in DraftTexts : SetText(s)
  \/ \E c \in Calls, o \in FetchOutcomes : HistoryFetchResolve(c, o)
  \/ \E c \in Calls : HistoryJsonReject(c)
  \/ \E c \in Calls, d \in HistoryBodies : HistoryJsonResolve(c, d)
  \/ \E c \in Calls, o \in FetchOutcomes : AnalyzeFetchResolve(c, o)
  \/ \E c \in Calls : AnalyzeJsonReject(c)
  \/ \E c \in Calls, d \in AnalyzeBodies : AnalyzeJsonResolve(c, d)
  \/ Tick

SpecAfterError == InitAfterError /\ [][NextMounted]_vars

\* The component with a stale load in flight: the state after the mount
\* effect, a draft typed, handleAnalyze called, its POST answered, and its
\* chained history load answered, the history load of the mount, sent first,
\* still in flight.
InitStaleLoad ==
  /\ text = <<"a", "a">>
  /\ result = newResult([input_text |-> <<"a">>, sentiment |-> "Positive",
                         compound_score |-> 80], 0)
  /\ history = mapped(<<ItemNew, ItemOld>>)
  /\ isAnalyzing = FALSE
  /\ isLoadingHistory = FALSE
  /\ errorMessage = null
  /\ mounted = TRUE
  /\ calls = SetToBag({Call("fetchHistory", "history.fetch", <<>>)})
  /\ now = 0
  /\ lastEvent = Event("history.json", Call("handleAnalyze", "history.json", <<>>),
                       "data", JsonArray(<<ItemNew, ItemOld>>))

SpecStaleLoad == InitStaleLoad /\ [][NextMounted]_vars

\* A service whose data does not change: every history response that can be
\* read carries the same array.
BackingData == JsonArray(<<ItemNew, ItemOld>>)

\* the state after the mount effect and the answer to its history load
InitLoaded ==
  /\ text = <<>>
  /\ result = nullResult
  /\ history = mapped(BackingData.items)
  /\ isAnalyzing = FALSE
  /\ isLoadingHistory = FALSE
  /\ errorMessage = null
  /\ mounted = TRUE
  /\ calls = EmptyBag
  /\ now = 0
  /\ lastEvent = Event("history.json", Call("fetchHistory", "history.json", <<>>),
                       "data", BackingData)

NextSameData ==
  \/ HandleAnalyze
  \/ \E s \in DraftTexts : SetText(s)
  \/ \E c \in Calls, o \in FetchOutcomes : HistoryFetchResolve(c, o)
  \/ \E c \in Calls : HistoryJsonReject(c)
  \/ \E c \in Calls : HistoryJsonResolve(c, BackingData)
  \/ \E c \in Calls, o \in FetchOutcomes : AnalyzeFetchResolve(c, o)
  \/ \E c \in Calls : AnalyzeJsonReject(c)
  \/ \E c \in Calls, d \in AnalyzeBodies : AnalyzeJsonResolve(c, d)
  \/ Tick

SpecSameData == InitLoaded /\ [][NextSameData]_vars

\* The view of any record: a text of n characters, letters alternating
TextOfLength(n) == [i \in 1..n |-> IF i % 2 = 1 THEN "a" ELSE "b"]

Sentiments == {"Positive", "Negative", "Neutral"}

\* the mounted component showing a result and a one-item history with any
\* sentiment, any score and a text of any length
InitShowing ==
  /\ text = <<>>
  /\ \E sentiment \in Sentiments, score \in -MaxScore..MaxScore, n \in 0..MaxTextLen :
       /\ result = [text |-> <<"a">>, sentiment |-> sentiment, score |-> score,
                    timestamp |-> DateNow(0)]
       /\ history = << [id |-> "id1", text |-> TextOfLength(n),
                        sentiment |-> sentiment, score |-> score,
                        timestamp |-> DateParse("2024-01-01T00:00:00Z")] >>
  /\ isAnalyzing = FALSE
  /\ isLoadingHistory = FALSE
  /\ errorMessage = null
  /\ mounted = TRUE
  /\ calls = EmptyBag
  /\ now = 0
  /\ lastEvent = Event("history.json", Call("handleAnalyze", "history.json", <<>>),
                       "data", JsonArray(<<>>))

SpecRender == InitShowing /\ [][Render]_vars

\* lines 192-194: the Analyze button calls handleAnalyze, and is disabled
\* while the draft is blank or an analysis is running
ClickAnalyze ==
  /\ ~(isBlank(text) \/ isAnalyzing)
  /\ HandleAnalyze

\* the component driven through its rendered controls only
NextRendered ==
  \/ Mount
  \/ ClickAnalyze
  \/ \E s \in DraftTexts : SetText(s)
  \/ \E c \in Calls, o \in FetchOutcomes : HistoryFetchResolve(c, o)
  \/ \E c \in Calls : HistoryJsonReject(c)
  \/ \E c \in Calls, d \in HistoryBodies : HistoryJsonResolve(c, d)
  \/ \E c \in Calls, o \in FetchOutcomes : AnalyzeFetchResolve(c, o)
  \/ \E c \in Calls : AnalyzeJsonReject(c)
  \/ \E c \in Calls, d \in AnalyzeBodies : AnalyzeJsonResolve(c, d)
  \/ Tick

SpecRendered == Init /\ [][NextRendered]_vars

\* The event loop runs a continuation once its promise settles, and every
\* request that was sent is answered or fails: each suspended invocation is
\* resumed.  The component is driven through its rendered controls.
Resolves(c) ==
  \/ \E o \in FetchOutcomes : HistoryFetchResolve(c, o)
  \/ HistoryJsonReject(c)
  \/ \E d \in HistoryBodies : HistoryJsonResolve(c, d)
  \/ \E o \in FetchOutcomes : AnalyzeFetchResolve(c, o)
  \/ AnalyzeJsonReject(c)
  \/ \E d \in AnalyzeBodies : AnalyzeJsonResolve(c, d)

SpecResolving ==
  Init /\ [][NextRendered]_vars /\ \A c \in Calls : WF_vars(Resolves(c))

TypeOK ==
  /\ text \in DraftTexts
  /\ isAnalyzing \in BOOLEAN
  /\ isLoadingHistory \in BOOLEAN
  /\ mounted \in BOOLEAN
  /\ now \in 0..MaxClock
  /\ BagToSet(calls) \subseteq Calls
  /\ BagCardinality(calls) <= MaxInFlight

(***************************************************************************)
(* Properties                                                              *)
(***************************************************************************)
\* the step just taken, read in the state it leads to
Did(op, outcome) == lastEvent'.op = op /\ lastEvent'.outcome = outcome

\* a text made of whitespace only, the empty text included
WhitespaceOnly(s) == \A i \in 1..Len(s) : IsWhiteSpace(s[i])

\* a message that is there and is not the empty string
NonEmptyMessage(m) == m # null /\ m # ""

\* the step just taken is a failure of the analyze call of a handleAnalyze
AnalyzeFailed ==
  \/ Did("analyze.fetch", "reject")
  \/ Did("analyze.fetch", "notOk")
  \/ Did("analyze.json", "syntaxError")

\* the step just taken is a failure of a fetchHistory
HistoryFailed ==
  \/ Did("history.fetch", "reject")
  \/ Did("history.fetch", "notOk")
  \/ Did("history.json", "syntaxError")
  \/ (Did("history.json", "data") /\ ~lastEvent'.data.isArray)

\* the step just taken is the success of a fetchHistory
HistorySucceeded == Did("history.json", "data") /\ lastEvent'.data.isArray

\* C1: handleAnalyze called with an empty or whitespace-only draft sends no
\* request and changes no state slot, a set errorMessage included.
C1_BlankSubmitChangesNothing ==
  [][(lastEvent'.op = "handleAnalyze" /\ WhitespaceOnly(text))
       => (lastEvent'.outcome = "return" /\ UNCHANGED <<state, calls>>)]_vars

C1_Witness ==
  /\ lastEvent.op = "handleAnalyze"
  /\ lastEvent.outcome = "return"
  /\ text # <<>>
  /\ WhitespaceOnly(text)
  /\ errorMessage # null

\* C2: no step of a handleAnalyze whose analyze call fails changes result,
\* history or text; the failing step leaves a non-empty errorMessage and
\* isAnalyzing false.
C2_AnalyzeFailureKeepsState ==
  [][/\ (lastEvent'.op = "handleAnalyze" \/ Did("analyze.fetch", "ok"))
          => UNCHANGED <<result, history, text>>
     /\ AnalyzeFailed
          => /\ UNCHANGED <<result, history, text>>
             /\ NonEmptyMessage(errorMessage')
             /\ isAnalyzing' = FALSE]_vars

C2_Witness ==
  /\ lastEvent.op = "analyze.fetch"
  /\ lastEvent.outcome = "notOk"
  /\ result # nullResult
  /\ history # <<>>
  /\ text # <<>>
  /\ errorMessage = "Analysis failed. Please try again."
  /\ ~isAnalyzing

\* C3: a successful analyze response sets result to the record with the
\* response's input_text, sentiment and compound_score, no id, and the
\* client's time at that moment; the draft text is not changed.
C3_ResultFromResponse ==
  [][Did("analyze.json", "data")
       => /\ DOMAIN result' = {"text", "sentiment", "score", "timestamp"}
          /\ result'.text = lastEvent'.data.input_text
          /\ result'.sentiment = lastEvent'.data.sentiment
          /\ result'.score = lastEvent'.data.compound_score
          /\ result'.timestamp.time = now
          /\ text' = text]_vars

C3_Witness ==
  /\ lastEvent.op = "analyze.json"
  /\ lastEvent.outcome = "data"
  /\ result.text = lastEvent.data.input_text
  /\ result.text # trim(text)
  /\ result.timestamp.time = now
  /\ now > 0

\* the number of handleAnalyze invocations suspended at an await
Awaiting(bag, awaiting) == CopiesIn(Call("handleAnalyze", awaiting, <<>>), bag)

\* C4: a handleAnalyze sends its GET /history only in the step in which its
\* analyze response has been read successfully and result has been set to
\* the new record; that invocation's analyze request is then no longer in
\* flight.
C4_RefreshAfterResultSet ==
  [][Awaiting(calls', "history.fetch") > Awaiting(calls, "history.fetch")
       => /\ Did("analyze.json", "data")
          /\ result'.text = lastEvent'.data.input_text
          /\ result'.score = lastEvent'.data.compound_score
          /\ Awaiting(calls', "analyze.json") = Awaiting(calls, "analyze.json") - 1
          /\ isLoadingHistory']_vars

C4_Witness ==
  /\ lastEvent.op = "analyze.json"
  /\ lastEvent.outcome = "data"
  /\ Awaiting(calls, "history.fetch") = 1
  /\ Awaiting(calls, "analyze.json") = 0
  /\ result # nullResult

\* C5: when the refresh chained to a successful analyze fails, result is kept
\* (it is set, and not rolled back), history is kept, errorMessage is the
\* message of the history failure, and both busy flags are false.
C5_ChainedRefreshFailure ==
  [][(HistoryFailed /\ lastEvent'.call.fn = "handleAnalyze")
       => /\ result' = result
          /\ result' # nullResult
          /\ history' = history
          /\ errorMessage' =
               CASE Did("history.fetch", "notOk") -> "Failed to load history"
                 [] Did("history.fetch", "reject") -> NetworkError.message
                 [] Did("history.json", "syntaxError") -> SyntaxError.message
                 [] OTHER -> NotAFunction.message
          /\ isAnalyzing' = FALSE
          /\ isLoadingHistory' = FALSE]_vars

C5_Witness ==
  /\ lastEvent.op = "history.fetch"
  /\ lastEvent.outcome = "notOk"
  /\ lastEvent.call.fn = "handleAnalyze"
  /\ result # nullResult
  /\ history # <<>>
  /\ errorMessage = "Failed to load history"
  /\ ~isAnalyzing
  /\ ~isLoadingHistory

\* C6: a successful history response replaces history with a list of the
\* same length and order, the i-th record made of the i-th item's id,
\* input_text, sentiment, compound_score and parsed created_at.
C6_HistoryFromResponse ==
  [][HistorySucceeded
       => LET items == lastEvent'.data.items IN
          /\ Len(history') = Len(items)
          /\ \A i \in 1..Len(items) :
               /\ history'[i].id = items[i].id
               /\ history'[i].text = items[i].input_text
               /\ history'[i].sentiment = items[i].sentiment
               /\ history'[i].score = items[i].compound_score
               /\ history'[i].timestamp = DateParse(items[i].created_at)]_vars

\* an oldest-first response is kept oldest-first
C6_Witness ==
  /\ lastEvent.op = "history.json"
  /\ lastEvent.outcome = "data"
  /\ lastEvent.data.isArray
  /\ Len(history) = 2
  /\ history[1].id = "id1"
  /\ history[1].timestamp.time < history[2].timestamp.time

\* C7: a failed fetchHistory keeps history, leaves a non-empty errorMessage
\* and clears isLoadingHistory.
C7_RefreshFailureKeepsHistory ==
  [][HistoryFailed
       => /\ history' = history
          /\ NonEmptyMessage(errorMessage')
          /\ isLoadingHistory' = FALSE]_vars

C7_Witness ==
  /\ lastEvent.op = "history.json"
  /\ lastEvent.outcome = "syntaxError"
  /\ history # <<>>
  /\ errorMessage = SyntaxError.message
  /\ ~isLoadingHistory

\* C8: history never holds more than 10 records, whatever the service sends.
C8_HistoryAtMostTen == Len(history) <= HistoryLimit

C10_NoInvalidTimestamp ==
  \A i \in 1..Len(history) : history[i].timestamp.time # NaN

\* the state SpecAfterError starts in
AfterErrorState == InitAfterError

\* C11: if every request resolves, a handleAnalyze that passed its guard
\* leads to isAnalyzing = FALSE and a fetchHistory leads to
\* isLoadingHistory = FALSE, whatever the outcomes.
C11_BusyFlagsCleared ==
  /\ (\E c \in Suspended : c.fn = "handleAnalyze") ~> ~isAnalyzing
  /\ (\E c \in Suspended : c.awaiting \in {"history.fetch", "history.json"})
       ~> ~isLoadingHistory

\* a submission whose refresh failed has ended with both flags cleared
C11_Witness ==
  /\ lastEvent.op = "history.fetch"
  /\ lastEvent.outcome = "reject"
  /\ lastEvent.call.fn = "handleAnalyze"
  /\ ~isAnalyzing
  /\ ~isLoadingHistory
  /\ calls = EmptyBag

\* C12 (under SpecStaleLoad, where the mount's load is in flight while later
\* loads have been answered): no load is cancelled or dropped; after any load
\* is answered successfully, history is that response normalized, also when
\* the response is the one to the mount's request, which was sent first.
C12_LastResponseWins ==
  (/\ lastEvent.op = "history.json"
   /\ lastEvent.outcome = "data"
   /\ lastEvent.data.isArray)
    => history = mapped(lastEvent.data.items)

\* the mount's response arrives last and replaces the newer list
C12_Witness ==
  /\ lastEvent.op = "history.json"
  /\ lastEvent.outcome = "data"
  /\ lastEvent.call.fn = "fetchHistory"
  /\ lastEvent.data = JsonArray(<<ItemOldMs, ItemNew>>)
  /\ history = mapped(<<ItemOldMs, ItemNew>>)
  /\ history # mapped(<<ItemNew, ItemOld>>)

\* the state SpecStaleLoad starts in
StaleLoadState == InitStaleLoad

\* b is s without its leading and trailing whitespace, and is not empty
IsTrimOf(b, s) ==
  \E i, j \in 1..Len(s) :
    /\ i <= j
    /\ b = SubSeq(s, i, j)
    /\ ~IsWhiteSpace(s[i])
    /\ ~IsWhiteSpace(s[j])
    /\ \A k \in 1..Len(s) : (k < i \/ k > j) => IsWhiteSpace(s[k])

\* C13: the POST a handleAnalyze sends carries the draft as it is at the
\* call, without leading and trailing whitespace, and not empty; editing the
\* draft changes neither the requests in flight nor the result.
C13_RequestCarriesTrimmedDraft ==
  [][/\ Did("handleAnalyze", "issued")
          => \E i, j \in 1..Len(text) :
               /\ IsTrimOf(SubSeq(text, i, j), text)
               /\ calls' = calls (+) SetToBag({Call("handleAnalyze", "analyze.fetch",
                                                     SubSeq(text, i, j))})
     /\ lastEvent'.op = "setText" => (calls' = calls /\ result' = result)]_vars

\* a POST of the padded draft is in flight, and the draft has been edited
C13_Witness ==
  /\ Call("handleAnalyze", "analyze.fetch", <<"a">>) \in Suspended
  /\ lastEvent.op = "setText"
  /\ text = <<" ", "\t">>

\* C14 (under SpecSameData, which starts after a first load and whose
\* service returns the same array every time): after each later load history
\* has the contents the first load gave it, same length, order and values.
C14_RefreshIdempotent ==
  /\ Len(history) = Len(BackingData.items)
  /\ \A i \in 1..Len(history) : history[i] = mapItem(BackingData.items[i])

\* a load made after the first one has been answered
C14_Witness ==
  /\ lastEvent.op = "history.json"
  /\ lastEvent.outcome = "data"
  /\ lastEvent.call.fn = "handleAnalyze"
  /\ lastEvent.data = BackingData
  /\ Len(history) = 2

\* the state SpecSameData starts in
LoadedState == InitLoaded

\* C15: a 2xx history response that is the empty array makes history the
\* empty list and does not set errorMessage (a failure keeps history and
\* sets errorMessage).
C15_EmptyResponseIsSuccess ==
  [][(Did("history.json", "data") /\ lastEvent'.data = JsonArray(<<>>))
       => /\ history' = <<>>
          /\ errorMessage' = errorMessage
          /\ isLoadingHistory' = FALSE]_vars

\* the list has been emptied by a load chained to an analysis, with no error
C15_Witness ==
  /\ lastEvent.op = "history.json"
  /\ lastEvent.outcome = "data"
  /\ lastEvent.data = JsonArray(<<>>)
  /\ lastEvent.call.fn = "handleAnalyze"
  /\ history = <<>>
  /\ errorMessage = null

\* the number of invocations suspended at the given await
InFlight(bag, awaiting) ==
  BagCardinality([c \in {d \in BagToSet(bag) : d.awaiting = awaiting} |-> bag[c]])

\* C16: a request is sent only by a handleAnalyze past its guard (one POST),
\* by the mount effect, once (one GET), and by a handleAnalyze whose analyze
\* response was read (one GET); a failed call ends its invocation and sends
\* nothing.
C16_NoRetryNoHiddenRequest ==
  [][/\ InFlight(calls', "analyze.fetch") > InFlight(calls, "analyze.fetch")
          => /\ Did("handleAnalyze", "issued")
             /\ InFlight(calls', "analyze.fetch") = InFlight(calls, "analyze.fetch") + 1
             /\ InFlight(calls', "history.fetch") = InFlight(calls, "history.fetch")
     /\ InFlight(calls', "history.fetch") > InFlight(calls, "history.fetch")
          => /\ Did("mount", "issued") \/ Did("analyze.json", "data")
             /\ InFlight(calls', "history.fetch") = InFlight(calls, "history.fetch") + 1
             /\ Did("mount", "issued") => ~mounted
             /\ Did("analyze.json", "data")
                  => InFlight(calls', "analyze.json") = InFlight(calls, "analyze.json") - 1
     /\ (AnalyzeFailed \/ HistoryFailed)
          => /\ BagCardinality(calls') = BagCardinality(calls) - 1
             /\ InFlight(calls', "analyze.fetch") <= InFlight(calls, "analyze.fetch")
             /\ InFlight(calls', "history.fetch") <= InFlight(calls, "history.fetch")]_vars

\* after a failed analyze call nothing is in flight
C16_Witness ==
  /\ lastEvent.op = "analyze.fetch"
  /\ lastEvent.outcome = "notOk"
  /\ calls = EmptyBag
  /\ mounted

\* C17: the color of a score depends on the score alone: above 0.1 positive,
\* below -0.1 negative, otherwise (0.1 and -0.1 included) neutral, whatever
\* the sentiment label; the score bar uses the same partition.
C17_ScoreColorPartition ==
  lastEvent.op = "render" =>
    LET v == lastEvent.data
        expected(score) == IF score > 10 THEN "positive"
                           ELSE IF score < -10 THEN "negative" ELSE "neutral"
        category(color) == CASE color \in {"text-positive", "var(--positive)"} -> "positive"
                             [] color \in {"text-negative", "var(--negative)"} -> "negative"
                             [] color \in {"text-neutral", "var(--neutral)"} -> "neutral"
                             [] OTHER -> "none"
    IN /\ category(v.scoreColor) = expected(result.score)
       /\ category(v.barBackground) = expected(result.score)
       /\ \A i \in 1..Len(history) :
            category(v.itemColors[i]) = expected(history[i].score)

\* a score of exactly 0.1 with the label Positive is shown neutral
C17_Witness ==
  /\ lastEvent.op = "render"
  /\ result.score = 10
  /\ result.sentiment = "Positive"
  /\ lastEvent.data.scoreColor = "text-neutral"
  /\ lastEvent.data.barBackground = "var(--neutral)"

\* the maximum lengths truncateText is tried with, besides the default
MaxLengths == {0, 1, 59, DefaultMaxLength, MaxTextLen}

\* C18: truncateText returns a text of at most m characters unchanged and,
\* for a longer one, its first m characters followed by "...", for the
\* default m = 60 the list uses and for other m.
C18_Truncation ==
  lastEvent.op = "render" =>
    \A k \in 1..Len(history) :
      LET t == history[k].text IN
      /\ \A m \in MaxLengths :
           LET r == truncateText(t, m) IN
           /\ Len(t) <= m => r = t
           /\ Len(t) > m =>
                /\ Len(r) = m + 3
                /\ \A i \in 1..m : r[i] = t[i]
                /\ \A i \in (m + 1)..(m + 3) : r[i] = "."
      /\ Len(t) <= 60 => lastEvent.data.snippets[k] = t
      /\ Len(t) > 60 =>
           /\ Len(lastEvent.data.snippets[k]) = 63
           /\ SubSeq(lastEvent.data.snippets[k], 1, 60) = SubSeq(t, 1, 60)
           /\ SubSeq(lastEvent.data.snippets[k], 61, 63) = <<".", ".", ".">>

\* a text of 61 characters is shown as its first 60 and the marker
C18_Witness ==
  /\ lastEvent.op = "render"
  /\ Len(history[1].text) = 61
  /\ Len(lastEvent.data.snippets[1]) = 63
  /\ lastEvent.data.snippets[1][60] = "b"
  /\ lastEvent.data.snippets[1][61] = "."

\* C19: in every state isLoadingHistory is true while a GET /history is in
\* flight and isAnalyzing is true while a handleAnalyze has not finished.
C19_BusyFlagsReflectInFlight ==
  /\ (\E c \in Suspended : c.awaiting = "history.fetch") => isLoadingHistory
  /\ (\E c \in Suspended : c.fn = "handleAnalyze") => isAnalyzing

\* C20: while the history request chained to a successful handleAnalyze has
\* not resolved, isAnalyzing and isLoadingHistory both stay true.
C20_ChainHoldsBothFlags ==
  (\E c \in Suspended : c.fn = "handleAnalyze" /\ c.awaiting = "history.fetch")
    => (isAnalyzing /\ isLoadingHistory)

\* through the rendered controls one handleAnalyze runs at a time, and
\* isAnalyzing is true while it runs
AnalyzingWhileRunning ==
  /\ InFlight(calls, "analyze.fetch") + InFlight(calls, "analyze.json") <= 1
  /\ (\E c \in Suspended : c.fn = "handleAnalyze") => isAnalyzing

====
